---- MODULE Spec2Model ----
(***************************************************************************)
(* Model of cozmo_companion: the construction of VoiceAssistant and the    *)
(* turn-taking loop of VoiceAssistant.start_session (assistant.py) with    *)
(* its helpers _listen, _speak, detect_sentiment, check_exit_command and   *)
(* terminate_session (specification Spec), and the loop of cli.converse    *)
(* (specification SpecCli).                                                *)
(*                                                                         *)
(* Every external collaborator (recorder, speech-to-text, text-to-speech   *)
(* and playback, the two classifiers, the response engine) is a            *)
(* nondeterministic choice over the outcomes its call site can observe:    *)
(* a value, an ibm_watson ApiException, or any other exception.            *)
(***************************************************************************)
EXTENDS Integers, Sequences, FiniteSets, TLC

\* --------------------------------------------------------------------------
\* Bounds
\* --------------------------------------------------------------------------

\* number of loop iterations (calls of _listen) explored
MaxTurns == 3

\* --------------------------------------------------------------------------
\* Texts.  A text is a sequence of characters; the fixed messages of the
\* program are one-element sequences holding the whole message.
\* --------------------------------------------------------------------------

\* transcripts the speech-to-text service may return (the last one is "")
Transcripts == { <<"H", "i">>, <<"b", "y", "e">>, <<"B", "y", "e">>, <<>> }

\* reply texts the response engine may return
Replies == { <<"o", "k">>, <<"H", "i">> }

\* str.lower on one character
LowerChar(c) ==
    CASE c = "H" -> "h"
      [] c = "B" -> "b"
      [] OTHER -> c

\* user_input.lower()
Lower(s) == [i \in DOMAIN s |-> LowerChar(s[i])]

greeting == << "Hello! Chat with GPT and I will speak its responses!" >>

gpt_exit_message ==
    << "Alright, I understand. It was great talking to you. I am always here for you if you want to talk. Goodbye!" >>

apology == << "Sorry, I encountered an error processing your request." >>

reprompt == << "I didn't catch that, could you please repeat?" >>

\* the value None returned by _listen, and a returned transcript
None == [some |-> FALSE, text |-> <<>>]

Some(t) == [some |-> TRUE, text |-> t]

\* truth value of `if user_input:` -- None and "" are both falsy
Truthy(u) == u.some /\ u.text # <<>>

\* --------------------------------------------------------------------------
\* State
\* --------------------------------------------------------------------------
VARIABLES
    pc,                   \* position of start_session
    conversation_history, \* self.conversation_history
    user_input,           \* local user_input of start_session
    gpt_response_text,    \* local gpt_response_text of start_session
    turn,                 \* number of loop iterations started
    trace,                \* external calls of the current iteration, in order
    histAtTurnStart,      \* conversation_history when the iteration started
    cycles,               \* iterations whose try block ran to its end
    logged,               \* history snapshots written by log_chatbot_details
    cfg,                  \* the settings read through decouple.config
    SPEECH_TO_TEXT,       \* self.SPEECH_TO_TEXT
    TEXT_TO_SPEECH,       \* self.TEXT_TO_SPEECH
    sentiment,            \* self.chatbot.state.sentiment
    cli_pc,               \* position of cli.converse
    speech_text,          \* local speech_text of cli.converse
    cli_turn              \* number of iterations of the loop of cli.converse

vars == << pc, conversation_history, user_input, gpt_response_text, turn,
           trace, histAtTurnStart, cycles, logged,
           cfg, SPEECH_TO_TEXT, TEXT_TO_SPEECH, sentiment,
           cli_pc, speech_text, cli_turn >>

\* the state of cli.converse
cli == << cli_pc, speech_text, cli_turn >>

\* the attributes set by _configure_services, with the settings they come from
services == << cfg, SPEECH_TO_TEXT, TEXT_TO_SPEECH >>

\* one external call: the operation, what it was given, how it ended
Call(op, what, res) == [op |-> op, what |-> what, res |-> res]

\* outcomes of one _speak call: played, ApiException (caught and logged
\* inside _speak), or any other exception (propagates to the caller)
SpeakResults == {"ok", "api", "raise"}

\* _speak returns normally unless an exception other than ApiException occurs
SpeakReturns(r) == r \in {"ok", "api"}

Entry(role, content) == [role |-> role, content |-> content]

\* the orchestrator state of the specification, read off the position
SessionState ==
    CASE pc \in {"listen", "reprompt"} -> "AWAITING_INPUT"
      [] pc \in {"exit_check", "sentiment", "respond", "speak_reply", "apology"}
            -> "PROCESSING"
      [] pc \in {"terminate", "farewell", "break", "returned"} -> "TERMINATING"
      [] pc \in {"construct", "greet"} -> "STARTING"
      [] OTHER -> "ABORTED"

\* what a service URL setting can be: absent, or a URL containing
\* "speech-to-text", "text-to-speech", both, or neither
UrlKinds == {"missing", "stt", "tts", "both", "other"}

\* the settings without a default: present or absent, and the two URLs
Configs ==
    [ IAM_APIKEY_STT : BOOLEAN, URL_STT : UrlKinds,
      IAM_APIKEY_TTS : BOOLEAN, URL_TTS : UrlKinds,
      MARVIN_OPENAI_API_KEY : BOOLEAN,
      MARVIN_CHAT_COMPLETIONS_MODEL : BOOLEAN ]

\* the enumeration Sentiment
Sentiment == {"POSITIVE", "NEGATIVE", "NEUTRAL"}

Init ==
    /\ pc = "construct"
    /\ cfg \in Configs
    /\ SPEECH_TO_TEXT = "unset"
    /\ TEXT_TO_SPEECH = "unset"
    /\ sentiment = <<>>
    /\ cli_pc = "idle"
    /\ speech_text = <<>>
    /\ cli_turn = 0
    /\ conversation_history = <<>>
    /\ user_input = None
    /\ gpt_response_text = <<>>
    /\ turn = 0
    /\ trace = <<>>
    /\ histAtTurnStart = <<>>
    /\ cycles = 0
    /\ logged = <<>>

\* --------------------------------------------------------------------------
\* Actions
\* --------------------------------------------------------------------------

\* _initialize_ibm_service with a fallback client instead of the ValueError
initialize_ibm_service_defaulting(url) ==
    IF url \in {"stt", "both"} THEN "SpeechToTextV1" ELSE "TextToSpeechV1"

\* _initialize_ibm_service: the client is chosen by what the URL contains,
\* "speech-to-text" being tested first
initialize_ibm_service(url) ==
    IF url \in {"stt", "both"} THEN "SpeechToTextV1"
    ELSE IF url \in {"tts", "both"} THEN "TextToSpeechV1"
    ELSE "ValueError"

\* config(name) of a setting without default raises when it is absent;
\* _configure_services reads key and URL of a service, then initializes it
ServiceConfigured(key, url) ==
    key /\ url # "missing" /\ initialize_ibm_service(url) # "ValueError"

\* __init__: _configure_services (speech-to-text, text-to-speech, Marvin
\* settings) and the Application; any exception leaves the constructor, and
\* then there is no object whose start_session could run
Construct ==
    /\ pc = "construct"
    /\ LET sttOk == ServiceConfigured(cfg.IAM_APIKEY_STT, cfg.URL_STT)
           ttsOk == sttOk /\ ServiceConfigured(cfg.IAM_APIKEY_TTS, cfg.URL_TTS)
           allOk == /\ ttsOk
                    /\ cfg.MARVIN_OPENAI_API_KEY
                    /\ cfg.MARVIN_CHAT_COMPLETIONS_MODEL
       IN /\ SPEECH_TO_TEXT' =
                IF sttOk THEN initialize_ibm_service(cfg.URL_STT) ELSE SPEECH_TO_TEXT
          /\ TEXT_TO_SPEECH' =
                IF ttsOk THEN initialize_ibm_service(cfg.URL_TTS) ELSE TEXT_TO_SPEECH
          /\ pc' = IF allOk THEN "greet" ELSE "config_error"
    /\ UNCHANGED << conversation_history, user_input, gpt_response_text, turn,
                    trace, histAtTurnStart, cycles, logged, cfg, sentiment,
                    cli >>

\* outcomes of a _speak call with the client held in self.TEXT_TO_SPEECH:
\* a client of the other kind has no synthesize method (AttributeError)
SpeakOutcomes ==
    IF TEXT_TO_SPEECH = "TextToSpeechV1" THEN SpeakResults ELSE {"raise"}

\* start_session, line 297: the greeting
Greet ==
    /\ pc = "greet"
    /\ \E r \in SpeakOutcomes :
          /\ trace' = Append(trace, Call("speak", greeting, r))
          /\ pc' = IF SpeakReturns(r) THEN "listen" ELSE "crashed"
    /\ UNCHANGED << conversation_history, user_input, gpt_response_text, turn,
                    histAtTurnStart, cycles, logged >>
    /\ UNCHANGED << services, sentiment, cli >>

\* AfterListen with the exit-intent check skipped: a transcript goes straight
\* to sentiment classification
AfterListenSkippingExitCheck(u) == IF Truthy(u) THEN "sentiment" ELSE "reprompt"

\* position after `user_input = self._listen()` and `if user_input:`
AfterListen(u) == IF Truthy(u) THEN "exit_check" ELSE "reprompt"

\* _listen followed by the test of line 304 and the lower() of line 305.
\* recorder.record() is outside the try block, so its failure propagates;
\* inside it only ApiException is caught, and then _listen returns None.
\* A client of the other kind in self.SPEECH_TO_TEXT has no recognize method,
\* so the call can only raise (AttributeError).
Listen ==
    /\ pc = "listen"
    /\ turn < MaxTurns
    /\ turn' = turn + 1
    /\ histAtTurnStart' = conversation_history
    /\ \/ /\ trace' = << Call("record", <<>>, "raise") >>
          /\ pc' = "crashed"
          /\ UNCHANGED user_input
       \/ /\ trace' = << Call("record", <<>>, "ok"), Call("stt", <<>>, "raise") >>
          /\ pc' = "crashed"
          /\ UNCHANGED user_input
       \/ /\ SPEECH_TO_TEXT = "SpeechToTextV1"
          /\ trace' = << Call("record", <<>>, "ok"), Call("stt", <<>>, "api") >>
          /\ user_input' = None
          /\ pc' = AfterListen(None)
       \/ /\ SPEECH_TO_TEXT = "SpeechToTextV1"
          /\ trace' = << Call("record", <<>>, "ok"), Call("stt", <<>>, "noresults") >>
          /\ user_input' = None
          /\ pc' = AfterListen(None)
       \/ \E t \in Transcripts :
          /\ SPEECH_TO_TEXT = "SpeechToTextV1"
          /\ trace' = << Call("record", <<>>, "ok"), Call("stt", t, "text") >>
          /\ user_input' = IF Truthy(Some(t)) THEN Some(Lower(t)) ELSE Some(t)
          /\ pc' = AfterListen(Some(t))
    /\ UNCHANGED << conversation_history, gpt_response_text, cycles, logged >>
    /\ UNCHANGED << services, sentiment, cli >>

\* position after check_exit_command(user_input), line 307: the call is
\* outside the try block, so an exception leaves start_session
AfterExitCheck(r) ==
    CASE r = "true" -> "terminate"
      [] r = "false" -> "sentiment"
      [] OTHER -> "crashed"

\* check_exit_command(user_input), line 307
CheckExit ==
    /\ pc = "exit_check"
    /\ \E r \in {"true", "false", "raise"} :
          /\ trace' = Append(trace, Call("exit", user_input.text, r))
          /\ pc' = AfterExitCheck(r)
    /\ UNCHANGED << conversation_history, user_input, gpt_response_text, turn,
                    histAtTurnStart, cycles, logged >>
    /\ UNCHANGED << services, sentiment, cli >>

\* terminate_session, lines 281-282: the user's exit input is appended
TerminateBegin ==
    /\ pc = "terminate"
    /\ conversation_history' =
          Append(conversation_history, Entry("user", user_input.text))
    /\ pc' = "farewell"
    /\ UNCHANGED << user_input, gpt_response_text, turn, trace,
                    histAtTurnStart, cycles, logged >>
    /\ UNCHANGED << services, sentiment, cli >>

\* AfterTerminate without the break: the loop goes on to the next capture
AfterTerminateWithoutBreak == "listen"

\* position after terminate_session returns: line 310, break
AfterTerminate == "break"

\* terminate_session, lines 285-292: the farewell is spoken, appended, and
\* the history is logged; an exception out of _speak leaves terminate_session
\* and start_session before the append
TerminateFarewell ==
    /\ pc = "farewell"
    /\ \E r \in SpeakOutcomes :
          /\ trace' = Append(trace, Call("speak", gpt_exit_message, r))
          /\ IF SpeakReturns(r)
             THEN /\ conversation_history' =
                        Append(conversation_history, Entry("gpt", gpt_exit_message))
                  /\ logged' = Append(logged, conversation_history')
                  /\ pc' = AfterTerminate
             ELSE /\ pc' = "crashed"
                  /\ UNCHANGED << conversation_history, logged >>
    /\ UNCHANGED << user_input, gpt_response_text, turn, histAtTurnStart, cycles >>
    /\ UNCHANGED << services, sentiment, cli >>

\* start_session, line 341: after the loop the history is logged again
FinalLog ==
    /\ pc = "break"
    /\ logged' = Append(logged, conversation_history)
    /\ pc' = "returned"
    /\ UNCHANGED << conversation_history, user_input, gpt_response_text, turn,
                    trace, histAtTurnStart, cycles >>
    /\ UNCHANGED << services, sentiment, cli >>

\* detect_sentiment(user_input), line 314, inside the try block; the value
\* it returns is dropped, so only whether it returned is observable
DetectSentiment ==
    /\ pc = "sentiment"
    /\ \E r \in Sentiment \cup {"raise"} :
          /\ trace' = Append(trace, Call("sentiment", user_input.text,
                                         IF r = "raise" THEN "raise" ELSE "ok"))
          /\ pc' = IF r = "raise" THEN "apology" ELSE "respond"
    /\ UNCHANGED << conversation_history, user_input, gpt_response_text, turn,
                    histAtTurnStart, cycles, logged >>
    /\ UNCHANGED << services, sentiment, cli >>

\* what one say_async call may do to the application state: the engine
\* appends no sentiment value or one (its own decision, whether or not the
\* call then returns)
SentimentUpdates == { <<>> } \cup { << v >> : v \in Sentiment }

\* chatbot.say_async(user_input) and the extraction of the reply text,
\* lines 317-320, inside the try block
Respond ==
    /\ pc = "respond"
    /\ \E update \in SentimentUpdates : sentiment' = sentiment \o update
    /\ \/ \E reply \in Replies :
             /\ trace' = Append(trace, Call("respond", user_input.text, "ok"))
             /\ gpt_response_text' = reply
             /\ pc' = "speak_reply"
       \/ /\ trace' = Append(trace, Call("respond", user_input.text, "raise"))
          /\ pc' = "apology"
          /\ UNCHANGED gpt_response_text
    /\ UNCHANGED << conversation_history, user_input, turn, histAtTurnStart,
                    cycles, logged >>
    /\ UNCHANGED << services, cli >>

\* AppendTurn with the two appends in the wrong order
AppendTurnAssistantFirst(h, u, g) ==
    Append(Append(h, Entry("gpt", g)), Entry("user", u))

\* AppendTurn assigning a fresh list instead of appending
AppendTurnReplacing(h, u, g) == << Entry("user", u), Entry("gpt", g) >>

\* AppendTurn with the second append missing
AppendTurnUserOnly(h, u, g) == Append(h, Entry("user", u))

\* the two appends of lines 324-329
AppendTurn(h, u, g) == Append(Append(h, Entry("user", u)), Entry("gpt", g))

\* _speak(gpt_response_text) and the history update, lines 322-329
SpeakReply ==
    /\ pc = "speak_reply"
    /\ \E r \in SpeakOutcomes :
          /\ trace' = Append(trace, Call("speak", gpt_response_text, r))
          /\ IF SpeakReturns(r)
             THEN /\ conversation_history' =
                        AppendTurn(conversation_history, user_input.text,
                                   gpt_response_text)
                  /\ cycles' = cycles + 1
                  /\ pc' = "listen"
             ELSE /\ pc' = "apology"
                  /\ UNCHANGED << conversation_history, cycles >>
    /\ UNCHANGED << user_input, gpt_response_text, turn, histAtTurnStart, logged >>
    /\ UNCHANGED << services, sentiment, cli >>

\* the except handler, lines 330-334
Apologise ==
    /\ pc = "apology"
    /\ \E r \in SpeakOutcomes :
          /\ trace' = Append(trace, Call("speak", apology, r))
          /\ pc' = IF SpeakReturns(r) THEN "listen" ELSE "crashed"
    /\ UNCHANGED << conversation_history, user_input, gpt_response_text, turn,
                    histAtTurnStart, cycles, logged >>
    /\ UNCHANGED << services, sentiment, cli >>

\* the else branch, lines 335-338
Reprompt ==
    /\ pc = "reprompt"
    /\ \E r \in SpeakOutcomes :
          /\ trace' = Append(trace, Call("speak", reprompt, r))
          /\ pc' = IF SpeakReturns(r) THEN "listen" ELSE "crashed"
    /\ UNCHANGED << conversation_history, user_input, gpt_response_text, turn,
                    histAtTurnStart, cycles, logged >>
    /\ UNCHANGED << services, sentiment, cli >>

Next ==
    \/ Construct
    \/ Greet
    \/ Listen
    \/ CheckExit
    \/ TerminateBegin
    \/ TerminateFarewell
    \/ FinalLog
    \/ DetectSentiment
    \/ Respond
    \/ SpeakReply
    \/ Apologise
    \/ Reprompt

Spec == Init /\ [][Next]_vars

\* --------------------------------------------------------------------------
\* cli.converse
\* --------------------------------------------------------------------------

\* number of iterations of the loop of converse explored
MaxCliTurns == 3

\* EXIT_CONDITION: str = "exit"
EXIT_CONDITION == << "e", "x", "i", "t" >>

\* texts assistant.listen may return
CliTexts ==
    { <<>>, << "e" >>, << "i", "t" >>, << "x", "i" >>, << "x", "t" >>,
      << "h", "i" >>,
      << "e", "x", "i", "t" >>, << "e", "x", "i", "t", "s" >> }

\* `s in t` for two str values: s occurs in t as a contiguous run
IsSubstring(s, t) ==
    \E i \in 0..(Len(t) - Len(s)) : SubSeq(t, i + 1, i + Len(s)) = s

\* how a call made by converse can end: it returns, it raises an exception,
\* or the user interrupts it from the keyboard
CliOutcomes == {"ok", "raise", "interrupt"}

\* position after a call inside the try block of the loop: KeyboardInterrupt
\* is caught and ends the process, any other exception leaves converse
AfterCliCall(outcome, next) ==
    CASE outcome = "ok" -> next
      [] outcome = "interrupt" -> "sys_exit"
      [] OTHER -> "raised"

InitCli ==
    /\ pc = "construct"
    /\ conversation_history = <<>>
    /\ user_input = None
    /\ gpt_response_text = <<>>
    /\ turn = 0
    /\ trace = <<>>
    /\ histAtTurnStart = <<>>
    /\ cycles = 0
    /\ logged = <<>>
    /\ cfg = [ IAM_APIKEY_STT |-> TRUE, URL_STT |-> "stt",
               IAM_APIKEY_TTS |-> TRUE, URL_TTS |-> "tts",
               MARVIN_OPENAI_API_KEY |-> TRUE,
               MARVIN_CHAT_COMPLETIONS_MODEL |-> TRUE ]
    /\ SPEECH_TO_TEXT = "unset"
    /\ TEXT_TO_SPEECH = "unset"
    /\ sentiment = <<>>
    /\ cli_pc = "construct"
    /\ speech_text = <<>>
    /\ cli_turn = 0

\* the variables of the session of assistant.py, which converse does not use
session == << pc, conversation_history, user_input, gpt_response_text, turn,
             trace, histAtTurnStart, cycles, logged, services, sentiment >>

\* converse, lines 20-23: the assistant is constructed and greets; both
\* calls are outside the try block
CliStart ==
    /\ cli_pc = "construct"
    /\ \E constructed \in BOOLEAN, greeted \in BOOLEAN :
          cli_pc' = IF constructed /\ greeted THEN "listen" ELSE "raised"
    /\ UNCHANGED << speech_text, cli_turn, session >>

\* converse, line 28: speech_text = assistant.listen(filename)
CliListen ==
    /\ cli_pc = "listen"
    /\ cli_turn < MaxCliTurns
    /\ cli_turn' = cli_turn + 1
    /\ \/ \E t \in CliTexts :
             /\ speech_text' = t
             /\ cli_pc' = AfterCliCall("ok", "complete")
       \/ \E o \in CliOutcomes \ {"ok"} :
             /\ cli_pc' = AfterCliCall(o, "complete")
             /\ UNCHANGED speech_text
    /\ UNCHANGED session

\* converse, lines 30-32: get_gpt_completion(speech_text), then speak
CliRespond ==
    /\ cli_pc = "complete"
    /\ \E completion \in CliOutcomes, spoken \in CliOutcomes :
          cli_pc' = IF completion = "ok"
                    THEN AfterCliCall(spoken, "test")
                    ELSE AfterCliCall(completion, "test")
    /\ UNCHANGED << speech_text, cli_turn, session >>

\* converse, lines 34-36: `if speech_text in EXIT_CONDITION:` ... break
CliTest ==
    /\ cli_pc = "test"
    /\ cli_pc' = IF IsSubstring(speech_text, EXIT_CONDITION)
                 THEN "returned" ELSE "listen"
    /\ UNCHANGED << speech_text, cli_turn, session >>

NextCli ==
    \/ CliStart
    \/ CliListen
    \/ CliRespond
    \/ CliTest

SpecCli == InitCli /\ [][NextCli]_vars

\* --------------------------------------------------------------------------
\* Vocabulary of the properties
\* --------------------------------------------------------------------------

TypeOK ==
    /\ pc \in {"construct", "config_error", "greet", "listen", "reprompt", "exit_check", "sentiment",
               "respond", "speak_reply", "apology", "terminate", "farewell",
               "break", "returned", "crashed"}
    /\ turn \in 0..MaxTurns
    /\ cycles \in 0..MaxTurns
    /\ user_input.some \in BOOLEAN
    /\ cfg \in Configs
    /\ SPEECH_TO_TEXT \in {"unset", "SpeechToTextV1", "TextToSpeechV1"}
    /\ TEXT_TO_SPEECH \in {"unset", "SpeechToTextV1", "TextToSpeechV1"}
    /\ \A i \in DOMAIN sentiment : sentiment[i] \in Sentiment

\* some call of the current iteration was operation op ending as res
Has(op, res) == \E i \in DOMAIN trace : trace[i].op = op /\ trace[i].res = res

\* some call of the current iteration was operation op
Called(op) == \E i \in DOMAIN trace : trace[i].op = op

\* _speak was called with this text in the current iteration
Spoke(text) == \E i \in DOMAIN trace : trace[i].op = "speak" /\ trace[i].what = text

\* the current iteration has run to one of its ends
TurnOver == turn > 0 /\ pc \in {"listen", "crashed", "break", "returned"}

\* the current iteration got a non-empty transcript
GotTranscript ==
    \E i \in DOMAIN trace :
        trace[i].op = "stt" /\ trace[i].res = "text" /\ trace[i].what # <<>>

\* transcription gave the empty-result marker: no results, or an empty transcript
EmptyResult ==
    \/ Has("stt", "noresults")
    \/ \E i \in DOMAIN trace :
          trace[i].op = "stt" /\ trace[i].res = "text" /\ trace[i].what = <<>>

\* entries of the history appended during the current iteration
Gained == SubSeq(conversation_history, Len(histAtTurnStart) + 1,
                 Len(conversation_history))

\* number of entries of sequence h with this role
RECURSIVE CountRole(_, _)
CountRole(h, role) ==
    IF h = <<>> THEN 0
    ELSE (IF Head(h).role = role THEN 1 ELSE 0) + CountRole(Tail(h), role)

\* the reply of the current iteration was handed to _speak and _speak returned
ReplySpoken ==
    \E i \in DOMAIN trace :
        /\ trace[i].op = "speak"
        /\ trace[i].what = gpt_response_text
        /\ SpeakReturns(trace[i].res)
        /\ i > 1
        /\ trace[i - 1].op = "respond"

\* every step of the try block of the current iteration ended without raising
TurnSucceeded ==
    /\ Has("exit", "false")
    /\ Called("sentiment") /\ ~Has("sentiment", "raise")
    /\ Has("respond", "ok")
    /\ ReplySpoken

\* --------------------------------------------------------------------------
\* Properties
\* --------------------------------------------------------------------------

\* C1: every per-turn failure is contained: once a turn has begun, the
\* session is over (start_session returned or an exception left it) only
\* when the exit-intent classifier answered true in that turn.
C1_FailuresContained ==
    (turn > 0 /\ pc \in {"crashed", "returned"}) => Has("exit", "true")

\* C2: a turn whose transcript the exit-intent classifier classified as true
\* ends in TERMINATING with exactly the user entry and the farewell entry
\* appended, in this order, and without a sentiment or response-engine call.
C2_ExitAppendsUserAndFarewell ==
    (TurnOver /\ Has("exit", "true")) =>
        /\ SessionState = "TERMINATING"
        /\ Gained = << Entry("user", user_input.text),
                       Entry("gpt", gpt_exit_message) >>
        /\ ~Called("sentiment")
        /\ ~Called("respond")

\* C3: a turn whose transcription gave the empty-result marker leaves the
\* history unchanged, issues the spoken re-prompt, calls no classifier and no
\* response engine, and ends back in AWAITING_INPUT.
C3_EmptyResultReprompts ==
    (TurnOver /\ EmptyResult) =>
        /\ conversation_history = histAtTurnStart
        /\ Spoke(reprompt)
        /\ ~Called("exit") /\ ~Called("sentiment") /\ ~Called("respond")
        /\ pc = "listen"

C5_ExitIntentFirst ==
    /\ \A i \in DOMAIN trace :
          trace[i].op \in {"sentiment", "respond"} =>
             \E j \in 1..(i - 1) :
                /\ trace[j].op = "exit"
                /\ trace[j].res = "false"
                /\ trace[j].what = trace[i].what
    /\ Has("exit", "true") => (~Called("sentiment") /\ ~Called("respond"))

\* C5 witness: a turn in which all three calls were made
C5_Witness ==
    /\ Has("exit", "false") /\ Called("sentiment") /\ Has("respond", "ok")
    /\ pc = "speak_reply"

\* C6: a turn in which the exit-intent classifier raised is treated as not
\* exiting: it goes on to sentiment classification and the session neither
\* terminates nor is aborted.
C6_ExitFailureMeansNotExiting ==
    (TurnOver /\ Has("exit", "raise")) =>
        /\ Called("sentiment")
        /\ SessionState \notin {"TERMINATING", "ABORTED"}

\* C7: a turn in which the sentiment classifier raised still invokes the
\* response engine with the transcript, and when the reply was obtained and
\* handed to _speak the user and assistant entries are appended.
C7_SentimentFailureDoesNotAbort ==
    (TurnOver /\ Has("sentiment", "raise")) =>
        /\ \E i \in DOMAIN trace :
              trace[i].op = "respond" /\ trace[i].what = user_input.text
        /\ (Has("respond", "ok") /\ ReplySpoken) =>
              Gained = << Entry("user", user_input.text),
                          Entry("gpt", gpt_response_text) >>

\* C8: a turn in which the response engine raised speaks the apology, gets
\* no assistant entry in the history, and ends back in AWAITING_INPUT.
C8_RespondFailureApologises ==
    (TurnOver /\ Has("respond", "raise")) =>
        /\ Spoke(apology)
        /\ CountRole(Gained, "gpt") = 0
        /\ pc = "listen"

\* C9: every turn that got a non-empty transcript appends exactly one user
\* entry to the history, whatever its outcome.
C9_OneUserEntryPerTranscript ==
    (TurnOver /\ GotTranscript) => CountRole(Gained, "user") = 1

\* the farewell entry of the terminating turn is in the history
FarewellAppended ==
    /\ Has("exit", "true")
    /\ Len(conversation_history) = Len(histAtTurnStart) + 2

\* C10: once exit-intent has answered true, no further turn starts and the
\* only external call still made is the farewell _speak; after the farewell
\* entry the history never changes; and when start_session has returned, the
\* history it logged last is the whole history, ending with the farewell.
C10_NothingAfterTerminating ==
    /\ [][ Has("exit", "true") =>
             /\ turn' = turn
             /\ \/ trace' = trace
                \/ /\ ~FarewellAppended
                   /\ \E r \in SpeakResults :
                         trace' = Append(trace, Call("speak", gpt_exit_message, r))
             /\ FarewellAppended => conversation_history' = conversation_history
         ]_vars
    /\ [](pc = "returned" =>
             /\ logged # <<>>
             /\ logged[Len(logged)] = conversation_history
             /\ conversation_history[Len(conversation_history)]
                   = Entry("gpt", gpt_exit_message))

\* C10 witness: start_session has returned after an exit in the second turn
C10_Witness ==
    /\ pc = "returned" /\ turn = 2
    /\ Len(logged) = 2
    /\ Len(conversation_history) = 4

\* the reply of the current iteration was handed to _speak, which ended as res
ReplySpeakEnded(res) ==
    \E i \in DOMAIN trace :
        /\ trace[i].op = "speak"
        /\ trace[i].res = res
        /\ i > 1
        /\ trace[i - 1].op = "respond"

\* C11: a speech-to-text service error (ApiException) is handled differently
\* from a 'no result' outcome: it does not take the no-speech path, so no
\* re-prompt is spoken for it.
C11_SttErrorIsNotNoSpeech ==
    Has("stt", "api") => (pc # "reprompt" /\ ~Spoke(reprompt))

\* C12: a turn in which the text-to-speech service raised a service exception
\* while the reply was being spoken is aborted: the history is unchanged by
\* the turn, and the session continues at AWAITING_INPUT.
C12_TtsErrorAbortsTurn ==
    (TurnOver /\ ReplySpeakEnded("api")) =>
        /\ conversation_history = histAtTurnStart
        /\ pc = "listen"

\* a contained failure happened in the current iteration
ContainedFailure ==
    \/ Has("stt", "api")
    \/ Has("exit", "raise")
    \/ Has("sentiment", "raise")
    \/ Has("respond", "raise")
    \/ ReplySpeakEnded("api")
    \/ ReplySpeakEnded("raise")

\* C13: when the loop is about to capture again after a turn with a contained
\* failure, an apology or a re-prompt was handed to _speak in that turn.
C13_FailureIsAlwaysSpoken ==
    (turn > 0 /\ pc = "listen" /\ ContainedFailure) =>
        (Spoke(apology) \/ Spoke(reprompt))

\* the roles of h alternate strictly, starting with a user entry
Alternates(h) ==
    \A i \in DOMAIN h : h[i].role = (IF i % 2 = 1 THEN "user" ELSE "gpt")

\* C15: in AWAITING_INPUT the history has even length and its roles
\* alternate starting with user; once terminate_session has returned the
\* history ends with the user's exit entry followed by the farewell entry.
C15_HistoryIsPaired ==
    /\ SessionState = "AWAITING_INPUT" =>
          /\ Len(conversation_history) % 2 = 0
          /\ Alternates(conversation_history)
    /\ pc \in {"break", "returned"} =>
          /\ Len(conversation_history) >= 2
          /\ Alternates(conversation_history)
          /\ conversation_history[Len(conversation_history) - 1]
                = Entry("user", user_input.text)
          /\ conversation_history[Len(conversation_history)]
                = Entry("gpt", gpt_exit_message)
          /\ \A i \in 1..(Len(conversation_history) - 1) :
                conversation_history[i] # Entry("gpt", gpt_exit_message)

\* C15 witness: back at the top of the loop with one pair, after a turn that
\* did not complete
C15_Witness ==
    /\ pc = "listen" /\ turn = 2
    /\ Len(conversation_history) = 2
    /\ ~TurnSucceeded

\* sequence a is a prefix of sequence b
IsPrefix(a, b) == Len(a) <= Len(b) /\ SubSeq(b, 1, Len(a)) = a

\* C16: the history is append-only: across every step the history before
\* the step is a prefix of the history after it.
C16_HistoryAppendOnly ==
    [][IsPrefix(conversation_history, conversation_history')]_vars

\* C16 witness: two pairs and the terminating pair have been appended
C16_Witness ==
    /\ pc = "returned"
    /\ Len(conversation_history) = 6

\* a setting without default is absent
SettingMissing ==
    \/ ~cfg.IAM_APIKEY_STT \/ cfg.URL_STT = "missing"
    \/ ~cfg.IAM_APIKEY_TTS \/ cfg.URL_TTS = "missing"
    \/ ~cfg.MARVIN_OPENAI_API_KEY
    \/ ~cfg.MARVIN_CHAT_COMPLETIONS_MODEL

\* a configuration failure: a missing setting, or a service URL that names
\* neither service
ConfigFailure ==
    SettingMissing \/ cfg.URL_STT = "other" \/ cfg.URL_TTS = "other"

\* C14: under a configuration failure construction never succeeds, so the
\* session never begins: no greeting or other call is made, no turn starts
\* and the history stays empty.
C14_ConfigFailureIsFatal ==
    ConfigFailure =>
        /\ pc \in {"construct", "config_error"}
        /\ trace = <<>>
        /\ turn = 0
        /\ conversation_history = <<>>
        /\ logged = <<>>

\* C14 witness: construction has failed on a text-to-speech URL that names
\* neither service, every setting being present
C14_Witness ==
    /\ pc = "config_error"
    /\ ~SettingMissing
    /\ cfg.URL_STT = "stt"
    /\ cfg.URL_TTS = "other"

\* C17: at the end of every turn the sentiment sequence held by the response
\* engine is no longer than the number of user entries in the history.
C17_SentimentBoundedByUserTurns ==
    TurnOver => Len(sentiment) <= CountRole(conversation_history, "user")

\* construction has succeeded
Constructed == pc \notin {"construct", "config_error"}

\* C18: once construction has succeeded, the speech-to-text slot holds a
\* speech-to-text client and the text-to-speech slot a text-to-speech client.
C18_SlotsHoldTheirOwnKind ==
    Constructed =>
        /\ SPEECH_TO_TEXT = "SpeechToTextV1"
        /\ TEXT_TO_SPEECH = "TextToSpeechV1"

\* C19: the loop of converse is left through its break only when the text
\* of the turn equals the exit word, and a turn whose text equals the exit
\* word does not lead to another iteration.
C19_LoopLeftIffExitWord ==
    /\ cli_pc = "returned" => speech_text = EXIT_CONDITION
    /\ (cli_pc = "listen" /\ cli_turn > 0) => speech_text # EXIT_CONDITION

====
